---- MODULE Spec2Model ----
(***************************************************************************)
(* Lentilens (src/index.tsx, final revision, lines 406-1006): the frame    *)
(* sampler extractFrames, the App session controller and the               *)
(* LenticularViewer render session, as one state machine.                  *)
(*                                                                         *)
(* Numbers.  JavaScript numbers are doubles.  Tilt values are modelled in  *)
(* fixed point, TiltScale units per 1.0.  Raster sizes are integers: for   *)
(* integers a, b with a < b <= 2^15 the double (a / b) * 1024 has the same *)
(* floor as the exact a * 1024 / b (multiplying by 1024 is exact and the   *)
(* quotient is correctly rounded), so Math.floor((a / b) * 1024) is        *)
(* (a * 1024) \div b.                                                      *)
(***************************************************************************)
EXTENDS Integers, Sequences, FiniteSets, TLC

VARIABLES
    platform,           \* which orientation API the browser exposes
    frames,             \* App state: frames (blob URLs of the FrameSet)
    videoDims,          \* App state: videoDims, NoDims for null
    isProcessing,       \* App state
    progress,           \* App state
    viewMode,           \* App state
    permissionGranted,  \* App state
    crashed,            \* the React root was unmounted by a render that threw
    denied,             \* the user has refused the orientation permission
    run,                \* the extractFrames invocations, by run number
    session,            \* number of LenticularViewer mounts so far
    loaded,             \* per mount: the frames whose loader.load has called back
    disposed,           \* textures and render targets on which dispose() has been called
    texturesRef,        \* texturesRef.current of the mounted viewer
    tiltRef,            \* tiltRef.current (raw tilt), fixed point
    uTilt,              \* material.uniforms.uTilt.value (damped tilt), fixed point
    uTexture,           \* material.uniforms.uTexture.value
    rafPending,         \* animation frames requested and neither run nor cancelled
    ticks,              \* compositing ticks of the mounted viewer
    viewport,           \* size the renderer was last given by updateSize
    pixelRatio,         \* window.devicePixelRatio
    uResolution,        \* the material's uResolution uniform
    dimIn,              \* input of the output-size computation (SpecDims)
    dimOut              \* its result

appVars == <<frames, videoDims, isProcessing, progress, viewMode,
             permissionGranted, crashed, denied>>
sizeVars == <<viewport, pixelRatio, uResolution>>
viewVars == <<session, loaded, disposed, texturesRef, tiltRef, uTilt, uTexture,
              rafPending, ticks, sizeVars>>
dimVars == <<dimIn, dimOut>>
vars == <<platform, appVars, run, viewVars, dimVars>>

(***************************************************************************)
(* Bounds of the model.                                                    *)
(***************************************************************************)
MaxRuns == 2
FrameCount == 2
MaxSessions == 2
MaxTicks == 2
MaxSteadyTicks == 12
\* Fixed-point units per 1.0 of tilt.
TiltScale == 1000

Runs == 1..MaxRuns
Sessions == 1..MaxSessions
Samples == 0..(FrameCount - 1)

(***************************************************************************)
(* Program constants.                                                      *)
(***************************************************************************)
maxDim == 1024
maxTilt == 45
\* The damping factor 0.1 of the render tick, as its reciprocal.
dampingInverse == 10
\* The cap on the device pixel ratio in updateSize.
maxPixelRatio == 2
\* window.innerWidth while a viewer is shown.
InnerWidth == 4
\* Units of video.duration and video.currentTime per second.
DurationUnit == 1000
\* safeDuration when the reported duration is unusable, in seconds.
fallbackDuration == 3
\* A reported duration of at most NearZero units counts as near zero.
NearZero == 1
\* The frame count App passes to extractFrames.
requestedFrameCount == 45
\* The cap of processDuration, in seconds.
maxProcessDuration == 5

Min(a, b) == IF a < b THEN a ELSE b
Max(a, b) == IF a > b THEN a ELSE b

\* videoDims === null.  The run field records which run produced the size.
NoDims == [width |-> 0, height |-> 0, run |-> 0]

\* "ios": DeviceOrientationEvent.requestPermission is a function.
\* "plain": DeviceOrientationEvent exists, without requestPermission.
\* "absent": the global DeviceOrientationEvent does not exist.
Platforms == {"ios", "plain", "absent"}

\* Native sizes the decoder may report in the session model.
NativeSizes == {<<0, 0>>, <<640, 480>>, <<2048, 1>>}

(***************************************************************************)
(* video.onloadedmetadata: the raster size of every frame of the run.      *)
(***************************************************************************)
MutOutputDimsWidthOnly(w, h) ==
    IF w > maxDim
    THEN IF w > h
         THEN <<maxDim, (h * maxDim) \div w>>
         ELSE <<(w * maxDim) \div h, maxDim>>
    ELSE <<w, h>>

OutputDims(w, h) ==
    IF w > maxDim \/ h > maxDim
    THEN IF w > h
         THEN <<maxDim, (h * maxDim) \div w>>
         ELSE <<(w * maxDim) \div h, maxDim>>
    ELSE <<w, h>>

\* video.duration as the decoder reports it: NaN, Infinity or a finite
\* number of DurationUnits.
Finite(ms) == [kind |-> "finite", ms |-> ms]
NaN == [kind |-> "NaN", ms |-> 0]
Infinity == [kind |-> "Infinity", ms |-> 0]

Durations ==
    {NaN, Infinity} \cup
    {Finite(ms) : ms \in {0, 1, 2 * DurationUnit, maxProcessDuration * DurationUnit,
                          10 * DurationUnit}}

\* The durations of the clips of the session specification, whose App steps
\* do not read the duration.
SessionDurations == {Finite(2 * DurationUnit)}

\* const duration = video.duration || 0
DurationOrZero(d) == IF d.kind = "NaN" THEN Finite(0) ELSE d

\* (Number.isFinite(duration) && duration > 0) ? duration : 3
MutSafeDurationZero(d) ==
    LET duration == DurationOrZero(d)
    IN  IF duration.kind = "finite"
        THEN duration.ms
        ELSE fallbackDuration * DurationUnit

SafeDuration(d) ==
    LET duration == DurationOrZero(d)
    IN  IF duration.kind = "finite" /\ duration.ms > 0
        THEN duration.ms
        ELSE fallbackDuration * DurationUnit

\* Math.min(safeDuration, 5)
MutProcessDurationNoCap(d) == SafeDuration(d)

ProcessDuration(d) == Min(SafeDuration(d), maxProcessDuration * DurationUnit)

\* time = i * interval with interval = processDuration / frameCount, as the
\* numerator over frameCount: time * frameCount.
MutSeekTimeNext(i, pd) == (i + 1) * pd

SeekTime(i, pd) == i * pd

\* dimOut before the computation has run.
NotComputed == <<-1, -1>>

\* Math.round(((i + 1) / frameCount) * 100), in exact arithmetic.  The
\* double computation gives the same value for every i at the frame counts
\* used here and at 45 (no (i + 1) * 100 / 45 is within 1/18 of a tie).
MutProgressPercentBefore(i, n) == (200 * i + n) \div (2 * n)

ProgressPercent(i, n) == (200 * (i + 1) + n) \div (2 * n)

(***************************************************************************)
(* One extractFrames invocation.  frames holds the sample index of every   *)
(* blob URL pushed; the URL made by run r for sample k is <<r, k>>.        *)
(***************************************************************************)
RunInit ==
    [pc            |-> "unstarted",  \* unstarted, loading, seekWait, encodeWait, exited
     promise       |-> "none",       \* none, pending, resolved, rejected
     attached      |-> FALSE,        \* the video element is in document.body
     urlLive       |-> FALSE,        \* fileUrl is created and not revoked
     errored       |-> FALSE,        \* the decoder has fired 'error'
     metadata      |-> FALSE,        \* onloadedmetadata has run
     native        |-> <<0, 0>>,     \* video.videoWidth, video.videoHeight
     canvas        |-> <<300, 150>>, \* canvas.width, canvas.height
     duration      |-> NaN,          \* video.duration as read by onloadeddata
     i             |-> 0,            \* loop variable
     time          |-> 0,            \* last video.currentTime assigned, times frameCount
     pct           |-> -1,           \* last value passed to onProgress, -1: none yet
     frames        |-> <<>>,         \* local frames array
     timer         |-> FALSE,        \* the 200 ms timer of the current wait is pending
     listeners     |-> {},           \* onSeeked closures registered, by iteration
     pendingSeeked |-> {},           \* seeks whose 'seeked' event is still to come
     blob          |-> "none",       \* last toBlob result: none, image, null
     capturedPerm  |-> FALSE,        \* permissionGranted as closed over by handleFileSelect
     autoStart     |-> "none",       \* the 500 ms timer: none, armed, fired
     notified      |-> 0]            \* alerts raised by handleFileSelect's catch

SeqRange(q) == {q[k] : k \in 1..Len(q)}

FrameIds(r, fs) == [k \in 1..Len(fs) |-> <<r, fs[k]>>]

\* The frame URLs that exist: URL.createObjectURL(blob) creates one per
\* pushed frame, and no statement of the program revokes one (the only
\* revokeObjectURL is cleanup's, for the source URL).
LiveUrls == UNION {SeqRange(FrameIds(r, run[r].frames)) : r \in Runs}

\* cleanup(): detach the video element, revoke the source URL.
MutCleanupKeepsUrl(rec) == [rec EXCEPT !.attached = FALSE]

Cleanup(rec) == [rec EXCEPT !.attached = FALSE, !.urlLive = FALSE]

(***************************************************************************)
(* App render.                                                             *)
(***************************************************************************)
\* A render condition that does not look at the frames.
MutViewerShownIgnoresFrames(vm, fr, dims) == vm /\ dims # NoDims

\* if (viewMode && frames.length > 0 && videoDims) return <LenticularViewer/>
ViewerShown(vm, fr, dims) == vm /\ Len(fr) > 0 /\ dims # NoDims

\* The footer reads the global DeviceOrientationEvent when frames.length > 0
\* && !isProcessing; where the global does not exist that is a ReferenceError
\* (optional chaining does not guard an undeclared identifier), and a render
\* that throws unmounts the root.
RenderThrows(vm, fr, dims, proc) ==
    /\ platform = "absent"
    /\ ~ViewerShown(vm, fr, dims)
    /\ Len(fr) > 0
    /\ ~proc

\* typeof DeviceOrientationEvent?.requestPermission === 'function'
NeedsPermission == platform = "ios"

ViewerActive == ~crashed /\ ViewerShown(viewMode, frames, videoDims)
DashboardShown == ~crashed /\ ~ViewerShown(viewMode, frames, videoDims)

\* The upload input is rendered and enabled.
UploadEnabled ==
    /\ DashboardShown
    /\ ~(Len(frames) > 0 /\ ~isProcessing)
    /\ ~isProcessing

\* The session state shown to the user.
Phase ==
    IF crashed THEN "Crashed"
    ELSE IF ViewerShown(viewMode, frames, videoDims) THEN "Viewing"
    ELSE IF isProcessing THEN "Sampling"
    ELSE IF Len(frames) > 0 THEN "Ready"
    ELSE "Idle"

\* uniforms.uTexture.value = null
NoTexture == <<0, 0>>

\* The texture made by mount s from frame k of the FrameSet.
TextureIds(s, n) == [k \in 1..n |-> <<s, k>>]

\* The renderer, geometry and material that mount s creates, as one resource.
RenderTarget(s) == <<s, 0>>

\* uResolution: { value: new THREE.Vector2(1, 1) }
Placeholder == <<1, 1>>

\* dpr = Math.min(window.devicePixelRatio, 2.0);
\* uResolution.value.set(clientWidth * dpr, clientHeight * dpr)
Resolution(size, ratio) ==
    <<size[1] * Min(ratio, maxPixelRatio), size[2] * Min(ratio, maxPixelRatio)>>

\* A mount that keeps the tilt values of the previous session.
MutViewerMountKeepsTilt ==
    /\ session < MaxSessions
    /\ session' = session + 1
    /\ texturesRef' = <<>>
    /\ uTexture' = NoTexture
    /\ rafPending' = rafPending + 1
    /\ ticks' = 0
    /\ viewport' = <<InnerWidth, InnerWidth>>
    /\ pixelRatio' = pixelRatio
    /\ uResolution' = Resolution(<<InnerWidth, InnerWidth>>, pixelRatio)
    /\ UNCHANGED <<loaded, disposed, tiltRef, uTilt>>

\* LenticularViewer mounts: fresh refs, a fresh material, the three effects
\* run (texture preload started, scene set up and the first animation frame
\* requested, input listeners added).
ViewerMount ==
    /\ session < MaxSessions
    /\ session' = session + 1
    /\ texturesRef' = <<>>
    /\ tiltRef' = 0
    /\ uTilt' = 0
    /\ uTexture' = NoTexture
    /\ rafPending' = rafPending + 1
    /\ ticks' = 0
    /\ viewport' = <<InnerWidth, InnerWidth>>
    /\ pixelRatio' = pixelRatio
    /\ uResolution' = Resolution(<<InnerWidth, InnerWidth>>, pixelRatio)
    /\ UNCHANGED <<loaded, disposed>>

\* LenticularViewer unmounts: the effects' cleanups run.
\*   texturesRef.current.forEach(t => t.dispose())
\*   cancelAnimationFrame(requestRef.current), the latest request; renderer,
\*   geometry, material disposed; input listeners removed.
MutViewerUnmountNoCancel ==
    /\ disposed' = disposed \cup SeqRange(texturesRef) \cup {RenderTarget(session)}
    /\ UNCHANGED <<session, loaded, texturesRef, tiltRef, uTilt, uTexture, ticks,
                   rafPending, sizeVars>>

ViewerUnmount ==
    /\ disposed' = disposed \cup SeqRange(texturesRef) \cup {RenderTarget(session)}
    /\ rafPending' = Max(0, rafPending - 1)
    /\ UNCHANGED <<session, loaded, texturesRef, tiltRef, uTilt, uTexture, ticks,
                   sizeVars>>

\* A batch of state updates followed by one render, which mounts or unmounts
\* the viewer as its condition changes.  After the root is unmounted state
\* setters have no effect.
AppUpdate(fr, dims, proc, prog, vm, perm) ==
    IF crashed
    THEN UNCHANGED <<appVars, viewVars>>
    ELSE /\ frames' = fr
         /\ videoDims' = dims
         /\ isProcessing' = proc
         /\ progress' = prog
         /\ viewMode' = vm
         /\ permissionGranted' = perm
         /\ crashed' = RenderThrows(vm, fr, dims, proc)
         /\ UNCHANGED denied
         /\ IF ViewerActive /\ ~ViewerShown(vm, fr, dims) THEN ViewerUnmount
            ELSE IF ~ViewerActive /\ ViewerShown(vm, fr, dims) THEN ViewerMount
            ELSE UNCHANGED viewVars

AppSame == UNCHANGED <<appVars, viewVars>>

(***************************************************************************)
(* extractFrames: the pieces of the sample loop.                           *)
(***************************************************************************)
\* video.currentTime = time, then the wait: setTimeout(seekResolve, 200) and
\* addEventListener("seeked", onSeeked).  A decoder that has failed performs
\* no seek and so owes no 'seeked' event.
MutStartSeekNoTimer(rec, k) ==
    [rec EXCEPT !.pc = "seekWait",
                !.i = k,
                !.time = SeekTime(k, ProcessDuration(rec.duration)),
                !.timer = FALSE,
                !.listeners = @ \cup {k},
                !.pendingSeeked = IF rec.errored THEN @ ELSE @ \cup {k}]

StartSeek(rec, k) ==
    [rec EXCEPT !.pc = "seekWait",
                !.i = k,
                !.time = SeekTime(k, ProcessDuration(rec.duration)),
                !.timer = TRUE,
                !.listeners = @ \cup {k},
                !.pendingSeeked = IF rec.errored THEN @ ELSE @ \cup {k}]

\* The async function has returned or thrown: the video element is detached
\* and, with the canvas, the locals and the closures, no longer reachable.
\* What remains of a run is what it handed to its caller: the FrameSet of a
\* resolved promise, the notification of a rejected one, the armed timer.
Exit(rec) ==
    IF rec.promise = "resolved"
    THEN [rec EXCEPT !.pc = "exited",
                     !.timer = FALSE,
                     !.listeners = {},
                     !.pendingSeeked = {}]
    ELSE [RunInit EXCEPT !.pc = "exited",
                         !.promise = rec.promise,
                         !.attached = rec.attached,
                         !.urlLive = rec.urlLive,
                         !.pct = rec.pct,
                         !.capturedPerm = rec.capturedPerm,
                         !.notified = rec.notified]

\* After the wait: clearRect, drawImage, canvas.toBlob(...).
StartEncode(rec) == [rec EXCEPT !.pc = "encodeWait"]

\* if (blob) frames.push(URL.createObjectURL(blob))
MutPushAlways(fs, k, img) == Append(fs, k)

MutPushFront(fs, k, img) == IF img THEN <<k>> \o fs ELSE fs

PushFrame(fs, k, img) == IF img THEN Append(fs, k) ELSE fs

\* canvas.toBlob yields null for a canvas without pixels.
CanEncode(rec) == rec.canvas[1] > 0 /\ rec.canvas[2] > 0

\* reject(...) while the promise is pending.  From here on nothing the loop
\* computes can reach a caller (a later resolve or reject is ignored), so of a
\* loop that runs on only the control state is kept: its raster and frames
\* are dropped.
MutRejectedNotifiesAgain(rec) ==
    [rec EXCEPT !.promise = "rejected",
                !.notified = @ + 1,
                !.native = RunInit.native,
                !.canvas = RunInit.canvas,
                !.frames = <<>>,
                !.blob = "none"]

Rejected(rec) ==
    IF rec.promise = "pending"
    THEN [rec EXCEPT !.promise = "rejected",
                     !.notified = @ + 1,
                     !.native = RunInit.native,
                     !.canvas = RunInit.canvas,
                     !.frames = <<>>,
                     !.blob = "none"]
    ELSE rec

\* reject(...) and, if the promise was pending, handleFileSelect's catch
\* block: alert, setIsProcessing(false), setProgress(0).
RejectRun(r, rec, exits) ==
    /\ run' = [run EXCEPT ![r] =
                  IF exits THEN Exit(Rejected(rec)) ELSE Rejected(rec)]
    /\ IF rec.promise = "pending"
       THEN AppUpdate(frames, videoDims, FALSE, 0, viewMode, permissionGranted)
       ELSE AppSame

(***************************************************************************)
(* App.handleFileSelect with the synchronous part of extractFrames.        *)
(***************************************************************************)
HandleFileSelect(r, ctxOk) ==
    /\ UploadEnabled
    /\ run[r].pc = "unstarted"
    /\ \A q \in Runs : q < r => run[q].pc # "unstarted"
    /\ IF ctxOk
       THEN /\ run' = [run EXCEPT ![r] =
                          [@ EXCEPT !.pc = "loading",
                                    !.promise = "pending",
                                    !.attached = TRUE,
                                    !.urlLive = TRUE,
                                    !.capturedPerm = permissionGranted]]
            /\ AppUpdate(<<>>, NoDims, TRUE, 0, viewMode, permissionGranted)
       ELSE \* reject("Could not get canvas context"), caught at once
            /\ run' = [run EXCEPT ![r] =
                          Exit([@ EXCEPT !.promise = "rejected",
                                         !.capturedPerm = permissionGranted,
                                         !.notified = @ + 1])]
            /\ AppUpdate(<<>>, NoDims, FALSE, 0, viewMode, permissionGranted)
    /\ UNCHANGED <<platform, dimVars>>

(***************************************************************************)
(* Decoder events.                                                         *)
(***************************************************************************)
\* video.onerror.  A decoder that has failed delivers no further events.
DecoderError(r) ==
    /\ run[r].pc \in {"loading", "seekWait", "encodeWait"}
    /\ ~run[r].errored
    /\ RejectRun(r, Cleanup([run[r] EXCEPT !.errored = TRUE,
                                           !.pendingSeeked = {}]),
                 run[r].pc = "loading")
    /\ UNCHANGED <<platform, dimVars>>

\* video.onloadedmetadata
LoadedMetadata(r, nat) ==
    /\ run[r].pc = "loading"
    /\ ~run[r].metadata
    /\ ~run[r].errored
    /\ run' = [run EXCEPT ![r] =
                  [@ EXCEPT !.metadata = TRUE,
                            !.native = nat,
                            !.canvas = OutputDims(nat[1], nat[2])]]
    /\ UNCHANGED <<platform, appVars, viewVars, dimVars>>

\* video.onloadeddata up to the first await
LoadedData(r, dur) ==
    /\ run[r].pc = "loading"
    /\ run[r].metadata
    /\ ~run[r].errored
    /\ run' = [run EXCEPT ![r] = StartSeek([@ EXCEPT !.frames = <<>>, !.duration = dur], 0)]
    /\ UNCHANGED <<platform, appVars, viewVars, dimVars>>

\* After a seek wait has ended: draw and start the encode, or an exception
\* in the try block: cleanup(); reject(err).
AfterWait(r, rec, throws) ==
    IF throws
    THEN RejectRun(r, Cleanup(rec), TRUE)
    ELSE /\ run' = [run EXCEPT ![r] = StartEncode(rec)]
         /\ AppSame

\* The decoder fires 'seeked' for seek k: every registered onSeeked runs
\* (clearTimeout of its own timer, removeEventListener, seekResolve).
Seeked(r, k, throws) ==
    /\ k \in run[r].pendingSeeked
    /\ LET rec == [run[r] EXCEPT !.pendingSeeked = @ \ {k},
                                 !.listeners = {}]
       IN  IF run[r].pc = "seekWait" /\ run[r].i \in run[r].listeners
           THEN AfterWait(r, [rec EXCEPT !.timer = FALSE], throws)
           ELSE /\ ~throws
                /\ run' = [run EXCEPT ![r] = rec]
                /\ AppSame
    /\ UNCHANGED <<platform, dimVars>>

\* The 200 ms timer of the current wait fires: seekResolve().  The onSeeked
\* listener of this wait stays registered.
SeekTimeout(r, throws) ==
    /\ run[r].pc = "seekWait"
    /\ run[r].timer
    /\ AfterWait(r, [run[r] EXCEPT !.timer = FALSE], throws)
    /\ UNCHANGED <<platform, dimVars>>

\* toBlob's callback and the rest of the iteration: push, onProgress, then
\* the next seek or, after the last sample, cleanup() and resolve(...), whose
\* continuation in handleFileSelect sets frames, videoDims, isProcessing and
\* arms the 500 ms auto-start timer.
EncodeDone(r, img) ==
    /\ run[r].pc = "encodeWait"
    /\ img => CanEncode(run[r])
    /\ LET old == run[r]
           fs  == PushFrame(old.frames, old.i, img)
           pct == ProgressPercent(old.i, FrameCount)
           rec == IF old.promise = "pending"
                  THEN [old EXCEPT !.frames = fs,
                                   !.pct = pct,
                                   !.blob = IF img THEN "image" ELSE "null"]
                  ELSE [old EXCEPT !.pct = pct]
       IN  IF old.i + 1 < FrameCount
           THEN /\ run' = [run EXCEPT ![r] = StartSeek(rec, old.i + 1)]
                /\ AppUpdate(frames, videoDims, isProcessing, pct, viewMode,
                             permissionGranted)
           ELSE IF old.promise = "pending"
           THEN /\ run' = [run EXCEPT ![r] =
                              Exit([Cleanup(rec) EXCEPT !.i = old.i + 1,
                                                        !.promise = "resolved",
                                                        !.autoStart = "armed"])]
                /\ AppUpdate(FrameIds(r, fs),
                             [width |-> old.canvas[1], height |-> old.canvas[2],
                              run |-> r],
                             FALSE, pct, viewMode, permissionGranted)
           ELSE /\ run' = [run EXCEPT ![r] =
                              Exit([Cleanup(rec) EXCEPT !.i = old.i + 1])]
                /\ AppUpdate(frames, videoDims, isProcessing, pct, viewMode,
                             permissionGranted)
    /\ UNCHANGED <<platform, dimVars>>

\* A timer that tests the permission state of the moment it fires.
MutAutoStartTimerLivePermission(r) ==
    /\ run[r].autoStart = "armed"
    /\ run' = [run EXCEPT ![r].autoStart = "fired"]
    /\ IF permissionGranted \/ platform = "absent"
       THEN AppUpdate(frames, videoDims, isProcessing, progress, TRUE,
                      permissionGranted)
       ELSE AppSame
    /\ UNCHANGED <<platform, dimVars>>

\* setTimeout(() => { if (permissionGranted || !window.DeviceOrientationEvent)
\*   setViewMode(true) }, 500)
AutoStartTimer(r) ==
    /\ run[r].autoStart = "armed"
    /\ run' = [run EXCEPT ![r].autoStart = "fired"]
    /\ IF run[r].capturedPerm \/ platform = "absent"
       THEN AppUpdate(frames, videoDims, isProcessing, progress, TRUE,
                      permissionGranted)
       ELSE AppSame
    /\ UNCHANGED <<platform, dimVars>>

(***************************************************************************)
(* User actions on the dashboard and the viewer.                           *)
(***************************************************************************)
ReadyFooter == DashboardShown /\ Len(frames) > 0 /\ ~isProcessing

\* Grant_Access button: App.requestPermission with the user's answer.
RequestPermission(answer) ==
    /\ ReadyFooter
    /\ ~permissionGranted /\ NeedsPermission
    /\ CASE answer = "granted" ->
              AppUpdate(frames, videoDims, isProcessing, progress,
                        IF Len(frames) > 0 THEN TRUE ELSE viewMode, TRUE)
         [] answer = "denied" -> \* alert("Motion access is required ...")
              /\ denied' = TRUE
              /\ UNCHANGED <<frames, videoDims, isProcessing, progress, viewMode,
                             permissionGranted, crashed, viewVars>>
         [] OTHER -> \* requestPermission() threw: console.error
              AppSame
    /\ UNCHANGED <<platform, run, dimVars>>

\* The footer shows the Initialize_View button (else Grant_Access).
InitializeViewShown ==
    /\ ReadyFooter
    /\ ~(~permissionGranted /\ NeedsPermission)

\* Initialize_View button: setViewMode(true)
InitializeView ==
    /\ InitializeViewShown
    /\ AppUpdate(frames, videoDims, isProcessing, progress, TRUE,
                 permissionGranted)
    /\ UNCHANGED <<platform, run, dimVars>>

\* The viewer's close button: onClose = () => setViewMode(false)
Close ==
    /\ ViewerActive
    /\ AppUpdate(frames, videoDims, isProcessing, progress, FALSE,
                 permissionGranted)
    /\ UNCHANGED <<platform, run, dimVars>>

(***************************************************************************)
(* LenticularViewer: texture preload, render tick, input handlers.         *)
(***************************************************************************)
\* n / d rounded to the nearest integer, d > 0.
RoundDiv(n, d) == (2 * n + d) \div (2 * d)

\* loader.load's callback for frame k of mount s; with the last one
\* Promise.all resolves and its continuation stores the textures, in frame
\* order, in the texturesRef of the instance that started the preload.
MutLoadTextureArrivalOrder(s, k) ==
    /\ s \in 1..session
    /\ k \in 1..Len(frames)
    /\ k \notin loaded[s]
    /\ loaded' = [loaded EXCEPT ![s] = @ \cup {k}]
    /\ texturesRef' =
          IF /\ loaded'[s] = 1..Len(frames)
             /\ s = session
             /\ ViewerActive
          THEN [j \in 1..Len(frames) |->
                   IF j = Len(frames) THEN <<s, k>>
                   ELSE IF j < k THEN <<s, j>> ELSE <<s, j + 1>>]
          ELSE texturesRef
    /\ UNCHANGED <<platform, appVars, run, dimVars>>
    /\ UNCHANGED <<session, disposed, tiltRef, uTilt, uTexture, rafPending, ticks,
                   sizeVars>>

MutLoadTextureStoresEach(s, k) ==
    /\ s \in 1..session
    /\ k \in 1..Len(frames)
    /\ k \notin loaded[s]
    /\ loaded' = [loaded EXCEPT ![s] = @ \cup {k}]
    /\ texturesRef' =
          IF s = session /\ ViewerActive
          THEN Append(texturesRef, <<s, k>>)
          ELSE texturesRef
    /\ UNCHANGED <<platform, appVars, run, dimVars>>
    /\ UNCHANGED <<session, disposed, tiltRef, uTilt, uTexture, rafPending, ticks,
                   sizeVars>>

LoadTexture(s, k) ==
    /\ s \in 1..session
    /\ k \in 1..Len(frames)
    /\ k \notin loaded[s]
    /\ loaded' = [loaded EXCEPT ![s] = @ \cup {k}]
    /\ texturesRef' =
          IF /\ loaded'[s] = 1..Len(frames)
             /\ s = session
             /\ ViewerActive
          THEN TextureIds(s, Len(frames))
          ELSE texturesRef
    /\ UNCHANGED <<platform, appVars, run, dimVars>>
    /\ UNCHANGED <<session, disposed, tiltRef, uTilt, uTexture, rafPending, ticks,
                   sizeVars>>

\* A tick that copies the raw tilt without damping.
MutSmoothNoDamping(cur, target) == target

\* A tick that steps twice the distance to the raw tilt.
MutSmoothOvershoot(cur, target) == cur + 2 * (target - cur)

\* newTilt = currentTilt + (targetTilt - currentTilt) * 0.1
Smooth(cur, target) == cur + RoundDiv(target - cur, dampingInverse)
\* A mapping that wraps around the frame count instead of clamping to it.
MutFrameIndexWrap(t, n) == (((t + TiltScale) * n) \div (2 * TiltScale)) % n

\* Math.min(length - 1, Math.max(0, Math.floor(((t + 1) / 2) * length)))
MutFrameIndexNoClamp(t, n) == ((t + TiltScale) * n) \div (2 * TiltScale)

FrameIndex(t, n) ==
    Min(n - 1, Max(0, ((t + TiltScale) * n) \div (2 * TiltScale)))

\* A requested animation frame runs animate() while texturesRef.current is
\* empty: only the next frame is requested.
AnimateSkip ==
    /\ rafPending > 0
    /\ Len(texturesRef) = 0
    /\ rafPending' = rafPending - 1 + 1
    /\ UNCHANGED <<platform, appVars, run, dimVars>>
    /\ UNCHANGED <<session, loaded, disposed, texturesRef, tiltRef, uTilt,
                   uTexture, ticks, sizeVars>>

\* A tick that writes the smoothed value back into the raw tilt.
MutCompositeStepWritesRaw ==
    /\ rafPending > 0
    /\ Len(texturesRef) > 0
    /\ LET newTilt == Smooth(uTilt, tiltRef)
           frameIndex == FrameIndex(newTilt, Len(texturesRef))
       IN  /\ uTilt' = newTilt
           /\ tiltRef' = newTilt
           /\ uTexture' = IF frameIndex + 1 \in DOMAIN texturesRef
                          THEN texturesRef[frameIndex + 1]
                          ELSE NoTexture
    /\ rafPending' = rafPending - 1 + 1
    /\ UNCHANGED <<platform, appVars, run, dimVars>>
    /\ UNCHANGED <<session, loaded, disposed, texturesRef, sizeVars>>

\* animate() with textures: damp the tilt, select and bind the frame, render,
\* request the next frame.
CompositeStep ==
    /\ rafPending > 0
    /\ Len(texturesRef) > 0
    /\ LET newTilt == Smooth(uTilt, tiltRef)
           frameIndex == FrameIndex(newTilt, Len(texturesRef))
       IN  /\ uTilt' = newTilt
           /\ uTexture' = IF frameIndex + 1 \in DOMAIN texturesRef
                          THEN texturesRef[frameIndex + 1]
                          ELSE NoTexture  \* undefined
    /\ rafPending' = rafPending - 1 + 1
    /\ UNCHANGED <<platform, appVars, run, dimVars>>
    /\ UNCHANGED <<session, loaded, disposed, texturesRef, tiltRef, sizeVars>>

AnimateComposite ==
    /\ ticks < MaxTicks
    /\ CompositeStep
    /\ ticks' = ticks + 1

\* The same tick in a loop that runs without end: the count of ticks is kept
\* exactly up to MaxSteadyTicks and stays there afterwards.
AnimateSteady ==
    /\ CompositeStep
    /\ ticks' = Min(ticks + 1, MaxSteadyTicks)

\* e.gamma as delivered by the platform: <<g>>, or <<>> for null when the
\* angle is missing.
Gammas == {<<>>, <<-90>>, <<20>>}

\* e.clientX as delivered by the platform; a pointer captured by a drag
\* reports positions outside the window.
ClientXs == {-5 * InnerWidth, InnerWidth, 6 * InnerWidth}

\* The value handleOrientation stores for an event whose gamma is g:
\*   gamma = e.gamma || 0; val = Math.max(-maxTilt, Math.min(maxTilt, gamma));
\*   tiltRef.current = val / maxTilt
OrientationTilt(g) ==
    LET gamma == IF g = <<>> THEN 0 ELSE g[1]  \* e.gamma || 0
        val == Max(-maxTilt, Min(maxTilt, gamma))
    IN  RoundDiv(val * TiltScale, maxTilt)

\* The value handleMouseMove stores for a pointer at clientX:
\*   x = e.clientX / window.innerWidth; tiltRef.current = (x * 2) - 1
MouseTilt(clientX) == RoundDiv(2 * clientX * TiltScale, InnerWidth) - TiltScale

\* handleOrientation
HandleOrientation(g) ==
    /\ ViewerActive
    /\ tiltRef' = OrientationTilt(g)
    /\ UNCHANGED <<platform, appVars, run, dimVars>>
    /\ UNCHANGED <<session, loaded, disposed, texturesRef, uTilt, uTexture,
                   rafPending, ticks, sizeVars>>

\* A pointer handler that averages the new value with the stored one.
MutHandleMouseMoveAverages(clientX) ==
    /\ ViewerActive
    /\ tiltRef' = (tiltRef + MouseTilt(clientX)) \div 2
    /\ UNCHANGED <<platform, appVars, run, dimVars>>
    /\ UNCHANGED <<session, loaded, disposed, texturesRef, uTilt, uTexture,
                   rafPending, ticks, sizeVars>>

\* handleMouseMove
HandleMouseMove(clientX) ==
    /\ ViewerActive
    /\ tiltRef' = MouseTilt(clientX)
    /\ UNCHANGED <<platform, appVars, run, dimVars>>
    /\ UNCHANGED <<session, loaded, disposed, texturesRef, uTilt, uTexture,
                   rafPending, ticks, sizeVars>>

\* Sizes the viewer's container can have: the whole window, or collapsed to
\* zero width or zero height.
ViewportSizes == {<<InnerWidth, InnerWidth>>, <<0, InnerWidth>>, <<InnerWidth, 0>>}

\* Values of window.devicePixelRatio.
PixelRatios == {1, 3}

\* A resize handler that sizes the renderer and leaves the uniform alone.
MutResizeKeepsUniform(size, ratio) ==
    /\ ViewerActive
    /\ <<size, ratio>> # <<viewport, pixelRatio>>
    /\ viewport' = size
    /\ pixelRatio' = ratio
    /\ uResolution' = uResolution
    /\ UNCHANGED <<platform, appVars, run, dimVars>>
    /\ UNCHANGED <<session, loaded, disposed, texturesRef, tiltRef, uTilt,
                   uTexture, rafPending, ticks>>

\* updateSize, run by the window's resize event, which reports the
\* container's new size and the window's new pixel ratio:
\*   renderer.setSize(clientWidth, clientHeight); renderer.setPixelRatio(dpr)
\*   uResolution.value.set(clientWidth * dpr, clientHeight * dpr)
\* It neither renders nor stops the loop, whatever the size.
Resize(size, ratio) ==
    /\ ViewerActive
    /\ <<size, ratio>> # <<viewport, pixelRatio>>
    /\ viewport' = size
    /\ pixelRatio' = ratio
    /\ uResolution' = Resolution(size, ratio)
    /\ UNCHANGED <<platform, appVars, run, dimVars>>
    /\ UNCHANGED <<session, loaded, disposed, texturesRef, tiltRef, uTilt,
                   uTexture, rafPending, ticks>>

(***************************************************************************)
(* The session specification.                                              *)
(***************************************************************************)
Init ==
    /\ platform \in Platforms
    /\ frames = <<>>
    /\ videoDims = NoDims
    /\ isProcessing = FALSE
    /\ progress = 0
    /\ viewMode = FALSE
    /\ permissionGranted = FALSE
    /\ crashed = FALSE
    /\ denied = FALSE
    /\ run = [r \in Runs |-> RunInit]
    /\ session = 0
    /\ loaded = [s \in Sessions |-> {}]
    /\ disposed = {}
    /\ texturesRef = <<>>
    /\ tiltRef = 0
    /\ uTilt = 0
    /\ uTexture = NoTexture
    /\ rafPending = 0
    /\ ticks = 0
    /\ viewport = <<0, 0>>
    /\ pixelRatio = 1
    /\ uResolution = Placeholder
    /\ dimIn = <<0, 0>>
    /\ dimOut = NotComputed

Next ==
    \/ \E r \in Runs, ctxOk \in BOOLEAN : HandleFileSelect(r, ctxOk)
    \/ \E r \in Runs : DecoderError(r)
    \/ \E r \in Runs, nat \in NativeSizes : LoadedMetadata(r, nat)
    \/ \E r \in Runs, dur \in SessionDurations : LoadedData(r, dur)
    \/ \E r \in Runs, k \in Samples, throws \in BOOLEAN : Seeked(r, k, throws)
    \/ \E r \in Runs, throws \in BOOLEAN : SeekTimeout(r, throws)
    \/ \E r \in Runs, img \in BOOLEAN : EncodeDone(r, img)
    \/ \E r \in Runs : AutoStartTimer(r)
    \/ \E answer \in {"granted", "denied", "error"} : RequestPermission(answer)
    \/ InitializeView
    \/ Close

Spec == Init /\ [][Next]_vars

(***************************************************************************)
(* The render-session specification.  It starts in the Ready states of the *)
(* session specification (a sampling run has resolved with at least one    *)
(* frame) and adds the steps inside the viewer, which write no App or      *)
(* sampler state.                                                          *)
(***************************************************************************)
\* The strictly increasing sequences of sample indexes.
FrameSeqs ==
    {fs \in UNION {[1..n -> Samples] : n \in 0..FrameCount} :
        \A a, b \in 1..Len(fs) : a < b => fs[a] < fs[b]}

ResolvedRun(fs) ==
    [RunInit EXCEPT !.pc = "exited",
                    !.promise = "resolved",
                    !.metadata = TRUE,
                    !.native = <<640, 480>>,
                    !.canvas = <<640, 480>>,
                    !.duration = Finite(2 * DurationUnit),
                    !.i = FrameCount,
                    !.time = SeekTime(FrameCount - 1,
                                      ProcessDuration(Finite(2 * DurationUnit))),
                    !.pct = 100,
                    !.frames = fs,
                    !.blob = IF Len(fs) > 0 /\ fs[Len(fs)] = FrameCount - 1
                             THEN "image" ELSE "null",
                    !.autoStart = "fired"]

ViewerInit ==
    /\ platform \in {"ios", "plain"}
    /\ \E fs \in FrameSeqs :
          /\ Len(fs) > 0
          /\ frames = FrameIds(1, fs)
          /\ run = [r \in Runs |-> IF r = 1 THEN ResolvedRun(fs) ELSE RunInit]
    /\ videoDims = [width |-> 640, height |-> 480, run |-> 1]
    /\ isProcessing = FALSE
    /\ progress = 100
    /\ viewMode = FALSE
    /\ permissionGranted = FALSE
    /\ crashed = FALSE
    /\ denied = FALSE
    /\ session = 0
    /\ loaded = [s \in Sessions |-> {}]
    /\ disposed = {}
    /\ texturesRef = <<>>
    /\ tiltRef = 0
    /\ uTilt = 0
    /\ uTexture = NoTexture
    /\ rafPending = 0
    /\ ticks = 0
    /\ viewport = <<0, 0>>
    /\ pixelRatio = 1
    /\ uResolution = Placeholder
    /\ dimIn = <<0, 0>>
    /\ dimOut = NotComputed

ViewerNext ==
    \/ \E answer \in {"granted", "denied", "error"} : RequestPermission(answer)
    \/ InitializeView
    \/ Close
    \/ \E s \in Sessions, k \in 1..FrameCount : LoadTexture(s, k)
    \/ AnimateSkip
    \/ AnimateComposite
    \/ \E g \in Gammas : HandleOrientation(g)
    \/ \E x \in ClientXs : HandleMouseMove(x)

SpecViewer == ViewerInit /\ [][ViewerNext]_vars

(***************************************************************************)
(* The session specification with the scheduling the platform guarantees:  *)
(* a pending timer fires and toBlob calls back.  Decoder events and user   *)
(* actions are not owed.                                                   *)
(***************************************************************************)
\* The tilt specification: a viewer whose textures are all ready, with the
\* raw tilt left by one input event and then held constant, so that only the
\* render loop and resizes of the window act.
RawTilts ==
    {OrientationTilt(g) : g \in Gammas} \cup {MouseTilt(x) : x \in ClientXs}

TiltInit ==
    \E fs \in FrameSeqs \ {<<>>}, raw \in RawTilts :
        /\ platform = "plain"
        /\ frames = FrameIds(1, fs)
        /\ videoDims = [width |-> 640, height |-> 480, run |-> 1]
        /\ isProcessing = FALSE
        /\ progress = 100
        /\ viewMode = TRUE
        /\ permissionGranted = FALSE
        /\ crashed = FALSE
        /\ denied = FALSE
        /\ run = [r \in Runs |-> IF r = 1 THEN ResolvedRun(fs) ELSE RunInit]
        /\ session = 1
        /\ loaded = [s \in Sessions |-> IF s = 1 THEN 1..Len(fs) ELSE {}]
        /\ disposed = {}
        /\ texturesRef = TextureIds(1, Len(fs))
        /\ tiltRef = raw
        /\ uTilt = 0
        /\ uTexture = NoTexture
        /\ rafPending = 1
        /\ ticks = 0
        /\ viewport = <<InnerWidth, InnerWidth>>
        /\ pixelRatio = 1
        /\ uResolution = Resolution(<<InnerWidth, InnerWidth>>, 1)
        /\ dimIn = <<0, 0>>
        /\ dimOut = NotComputed

TiltNext ==
    \/ AnimateSteady
    \/ \E size \in ViewportSizes, ratio \in PixelRatios : Resize(size, ratio)

SpecTilt == TiltInit /\ [][TiltNext]_vars

\* The browser runs every requested animation frame callback.
SpecTiltLive == SpecTilt /\ WF_vars(AnimateSteady)

\* The render specification: one render session, from a ready FrameSet through
\* the mount of the viewer, with every kind of step that can run while the
\* viewer is shown: texture loads, ticks
\* (skipped while the textures are missing, compositing afterwards), resizes
\* and input events.
RenderInit ==
    \E fs \in FrameSeqs \ {<<>>}, ratio \in PixelRatios :
        /\ platform = "plain"
        /\ frames = FrameIds(1, fs)
        /\ videoDims = [width |-> 640, height |-> 480, run |-> 1]
        /\ isProcessing = FALSE
        /\ progress = 100
        /\ viewMode = FALSE
        /\ permissionGranted = FALSE
        /\ crashed = FALSE
        /\ denied = FALSE
        /\ run = [r \in Runs |-> IF r = 1 THEN ResolvedRun(fs) ELSE RunInit]
        /\ session = 0
        /\ loaded = [s \in Sessions |-> {}]
        /\ disposed = {}
        /\ texturesRef = <<>>
        /\ tiltRef = 0
        /\ uTilt = 0
        /\ uTexture = NoTexture
        /\ rafPending = 0
        /\ ticks = 0
        /\ viewport = <<0, 0>>
        /\ pixelRatio = ratio
        /\ uResolution = Placeholder
        /\ dimIn = <<0, 0>>
        /\ dimOut = NotComputed

RenderNext ==
    \/ InitializeView
    \/ \E k \in 1..FrameCount : LoadTexture(1, k)
    \/ AnimateSkip
    \/ AnimateComposite
    \/ \E size \in ViewportSizes, ratio \in PixelRatios : Resize(size, ratio)
    \/ \E g \in Gammas : HandleOrientation(g)
    \/ \E x \in ClientXs : HandleMouseMove(x)

SpecRender == RenderInit /\ [][RenderNext]_vars

SpecLive ==
    /\ Spec
    /\ \A r \in Runs :
          /\ WF_vars(\E throws \in BOOLEAN : SeekTimeout(r, throws))
          /\ WF_vars(\E img \in BOOLEAN : EncodeDone(r, img))
          /\ WF_vars(AutoStartTimer(r))

(***************************************************************************)
(* One sampling run on its own, over the whole range of reported           *)
(* durations.                                                              *)
(***************************************************************************)
SamplerInit ==
    /\ Init
    /\ platform = "plain"

SamplerNext ==
    \/ \E ctxOk \in BOOLEAN : HandleFileSelect(1, ctxOk)
    \/ DecoderError(1)
    \/ \E nat \in NativeSizes : LoadedMetadata(1, nat)
    \/ \E dur \in Durations : LoadedData(1, dur)
    \/ \E k \in Samples, throws \in BOOLEAN : Seeked(1, k, throws)
    \/ \E throws \in BOOLEAN : SeekTimeout(1, throws)
    \/ \E img \in BOOLEAN : EncodeDone(1, img)

SpecSampler == SamplerInit /\ [][SamplerNext]_vars

(***************************************************************************)
(* The output-size computation of onloadedmetadata on its own, over a      *)
(* range of native sizes.                                                  *)
(***************************************************************************)
DimSizes ==
    (0..3) \cup ((maxDim - 1)..(maxDim + 2)) \cup {1080, 1920, 2 * maxDim, 4000}

DimsInit ==
    /\ Init
    /\ platform = "plain"

ChooseSource(w, h) ==
    /\ dimIn = <<0, 0>>
    /\ dimOut = NotComputed
    /\ dimIn' = <<w, h>>
    /\ UNCHANGED <<platform, appVars, run, viewVars, dimOut>>

ComputeDims ==
    /\ dimOut = NotComputed
    /\ dimOut' = OutputDims(dimIn[1], dimIn[2])
    /\ UNCHANGED <<platform, appVars, run, viewVars, dimIn>>

DimsNext ==
    \/ \E w \in DimSizes, h \in DimSizes : ChooseSource(w, h)
    \/ ComputeDims

SpecDims == DimsInit /\ [][DimsNext]_vars

(***************************************************************************)
(* Properties.                                                             *)
(***************************************************************************)
\* C1: every seek wait of every sample k ends, also when the decoder's
\* 'seeked' signal for it never arrives: the 200 ms timer ends it, and the
\* run goes on to capture sample k (draw and encode), unless the capture
\* throws and the run ends.  No run stays in a seek wait.  (SpecLive)
C1_SeekWaitEnds ==
    \A r \in Runs, k \in Samples :
        (run[r].pc = "seekWait" /\ run[r].i = k)
            ~> \/ run[r].pc = "encodeWait" /\ run[r].i = k
               \/ run[r].pc = "exited"

\* C1 witness: run 1 waits for seek 1 while the 'seeked' signal of seek 0
\* has still not arrived and the listener of wait 0 is still registered:
\* wait 0 was ended by its timer and sampling went on.
C1_Witness ==
    /\ run[1].pc = "seekWait"
    /\ run[1].i = 1
    /\ 0 \in run[1].pendingSeeked
    /\ 0 \in run[1].listeners
    /\ run[1].promise = "pending"

\* C2 (as claimed): once the viewer is torn down, every texture that a
\* texture-load completion has created has been disposed.  (SpecViewer)
C2_NoTextureLeftAfterTeardown ==
    ~ViewerActive =>
        \A s \in 1..session : \A k \in loaded[s] : <<s, k>> \in disposed

\* C3 (as claimed): every started sampling run eventually settles, resolved
\* or rejected.  (SpecLive)
C3_EveryRunSettles ==
    \A r \in Runs : (run[r].promise = "pending") ~> (run[r].promise # "pending")

\* C4 (as claimed): with the orientation permission refused and a FrameSet
\* ready, the dashboard offers a start-viewing action that needs no grant.
C4_UsableAfterDenial ==
    (denied /\ ~permissionGranted /\ ReadyFooter) => InitializeViewShown

\* C5 (as claimed): a step that leaves Viewing ends in Idle, where the
\* upload input is enabled.
C5_CloseLeadsToIdle ==
    [][(Phase = "Viewing" /\ Phase' # "Viewing")
          => (Phase' = "Idle" /\ UploadEnabled')]_vars

\* C6 (as claimed): when the auto-start timer of a completed run fires with
\* a FrameSet ready and the permission granted or not required by the
\* platform, the session is in Viewing afterwards.
C6_AutoStartEntersViewing ==
    [][\A r \in Runs :
          ( /\ run[r].autoStart = "armed"
            /\ run'[r].autoStart = "fired"
            /\ Phase \in {"Ready", "Viewing"}
            /\ (permissionGranted \/ ~NeedsPermission) )
          => Phase' = "Viewing"]_vars

\* C7: after every compositing tick the bound texture is the one at index
\* clamp(floor(((t + 1) / 2) * n), 0, n - 1), t the damped tilt the tick
\* produced and n the number of uploaded textures; the index is in 0..n-1.
\* (SpecViewer)
C7_BoundIndex ==
    ticks > 0 =>
        LET n == Len(texturesRef)
            x == (uTilt + TiltScale) * n   \* ((t + 1) / 2) * n, times 2 * TiltScale
        IN  \E k \in 0..(n - 1) :
               /\ uTexture = texturesRef[k + 1]
               /\ \/ x < 0 /\ k = 0
                  \/ x >= 2 * TiltScale * n /\ k = n - 1
                  \/ /\ 2 * TiltScale * k <= x
                     /\ x < 2 * TiltScale * (k + 1)

\* C7 witness: a tick has composited with the damped tilt above 1.0 and at
\* least two textures; the last texture is bound.
C7_Witness ==
    /\ ticks > 0
    /\ ViewerActive
    /\ uTilt > TiltScale
    /\ Len(texturesRef) >= 2
    /\ uTexture = texturesRef[Len(texturesRef)]

\* C8: a run holds at most one frame per finished iteration, in sample
\* order, so a returned FrameSet has at most FrameCount frames; the
\* iteration just finished has appended its frame exactly when its encode
\* yielded an image.
C8_AtMostOnePerIteration ==
    \A r \in Runs :
        LET rec == run[r]
            fs  == rec.frames
        IN  /\ Len(fs) <= rec.i
            /\ rec.i <= FrameCount
            /\ \A a \in 1..Len(fs) : fs[a] \in 0..(rec.i - 1)
            /\ \A a, b \in 1..Len(fs) : a < b => fs[a] < fs[b]
            /\ (rec.promise = "resolved" => Len(fs) <= FrameCount)
            /\ (rec.blob = "image" =>
                   Len(fs) > 0 /\ fs[Len(fs)] = rec.i - 1)
            /\ (rec.blob = "null" =>
                   Len(fs) = 0 \/ fs[Len(fs)] < rec.i - 1)

\* C8 witness: a resolved run whose FrameSet lacks a frame: the encode of
\* sample 0 yielded nothing and the encode of sample 1 an image.
C8_Witness ==
    /\ run[1].promise = "resolved"
    /\ run[1].frames = <<1>>
    /\ frames = <<<<1, 1>>>>

\* C9: the output size is the native size when neither side exceeds 1024;
\* otherwise the larger side is 1024 and the other side is
\* floor(other * 1024 / larger).  Both sides are at most 1024.  (SpecDims)
C9_OutputDims ==
    dimOut # NotComputed =>
        LET w == dimIn[1]
            h == dimIn[2]
            ow == dimOut[1]
            oh == dimOut[2]
        IN  /\ ow <= 1024 /\ oh <= 1024
            /\ (w <= 1024 /\ h <= 1024) => (ow = w /\ oh = h)
            /\ (w > 1024 \/ h > 1024) =>
                  IF w >= h
                  THEN /\ ow = 1024
                       /\ oh * w <= h * 1024
                       /\ h * 1024 < (oh + 1) * w
                  ELSE /\ oh = 1024
                       /\ ow * h <= w * 1024
                       /\ w * 1024 < (ow + 1) * h

\* C9 witness: a 1920 x 1080 source has been scaled to 1024 x 576.
C9_Witness ==
    /\ dimIn = <<1920, 1080>>
    /\ dimOut = <<1024, 576>>

\* C10 (as claimed): every FrameSet returned for a source with positive
\* native width and height has width >= 1 and height >= 1.
C10_PositiveDims ==
    \A r \in Runs :
        ( /\ run[r].promise = "resolved"
          /\ run[r].native[1] > 0
          /\ run[r].native[2] > 0 )
        => (run[r].canvas[1] >= 1 /\ run[r].canvas[2] >= 1)

\* C11 (as claimed): a run whose decoder reported a native width or height
\* of 0 does not return a FrameSet: no resolved run has a zero native side.
C11_ZeroDimsFail ==
    \A r \in Runs :
        run[r].promise = "resolved" =>
            (run[r].native[1] > 0 /\ run[r].native[2] > 0)

\* A run is inside its sample loop.
InLoop(rec) == rec.pc \in {"seekWait", "encodeWait"}

\* C12: for a reported duration D, finite with 0 < D <= 5 s, the seek of
\* iteration k is requested at k * D / N (time is kept times N), and the
\* loop variable only ever goes up by one.  (SpecSampler)
C12_SeekTimes ==
    [][\A r \in Runs :
          LET rec == run'[r]
              D   == rec.duration
          IN  ( /\ InLoop(rec)
                /\ D.kind = "finite"
                /\ 0 < D.ms
                /\ D.ms <= 5 * DurationUnit )
              => /\ rec.i \in 0..(FrameCount - 1)
                 /\ rec.time = rec.i * D.ms
                 /\ (InLoop(run[r]) => rec.i \in {run[r].i, run[r].i + 1})]_vars

\* C12 witness: with D = 2 s the seek of sample 1 has been requested at
\* 1 * D / N.
C12_Witness ==
    /\ run[1].pc = "seekWait"
    /\ run[1].duration = Finite(2 * DurationUnit)
    /\ run[1].i = 1
    /\ run[1].time = 2 * DurationUnit

\* C13: the sampling window is 5 s for D > 5 s, D for a finite D with
\* 0 < D <= 5 s, and 3 s for a NaN, infinite or non-positive D; iteration i
\* seeks to i * window / N, which is below the window.  (SpecSampler)
C13_Window ==
    \A r \in Runs :
        LET rec == run[r]
            D   == rec.duration
            window ==
                IF D.kind = "finite" /\ D.ms > 5 * DurationUnit
                    THEN 5 * DurationUnit
                ELSE IF D.kind = "finite" /\ D.ms > 0
                    THEN D.ms
                ELSE 3 * DurationUnit
        IN  InLoop(rec) =>
               /\ rec.time = rec.i * window
               /\ rec.time < FrameCount * window

\* C13 witness: with D = 10 s the seek of sample 1 has been requested at
\* 5 / N seconds.
C13_Witness ==
    /\ InLoop(run[1])
    /\ run[1].duration = Finite(10 * DurationUnit)
    /\ run[1].i = 1
    /\ run[1].time = 5 * DurationUnit

\* C14 (as claimed): for a reported duration of zero or near zero every
\* requested seek time is at or near 0.  (SpecSampler)
C14_AllSeeksNearZero ==
    \A r \in Runs :
        LET rec == run[r]
        IN  ( /\ InLoop(rec)
              /\ rec.duration.kind = "finite"
              /\ rec.duration.ms <= NearZero )
            => rec.time <= FrameCount * NearZero

\* C14 (amended): a run that returns has performed all N iterations, also
\* for a zero or near-zero duration; for a positive near-zero D every
\* requested seek time is below D, and for a reported duration of zero the
\* window is the 3 s default, iteration i seeking to i * 3 / N seconds.
\* (SpecSampler)
C14_NearZeroAmended ==
    \A r \in Runs :
        LET rec == run[r]
            D   == rec.duration
        IN  (D.kind = "finite" /\ D.ms <= NearZero) =>
               /\ rec.promise = "resolved" => rec.i = FrameCount
               /\ (InLoop(rec) /\ D.ms > 0) => rec.time < FrameCount * D.ms
               /\ (InLoop(rec) /\ D.ms = 0) => rec.time = rec.i * 3 * DurationUnit

\* C14 witness: a run on a clip of reported duration 0 has returned after
\* its last seek at (N - 1) * 3 / N seconds.
C14_Witness ==
    /\ run[1].promise = "resolved"
    /\ run[1].duration = Finite(0)
    /\ run[1].i = FrameCount
    /\ run[1].time = (FrameCount - 1) * 3 * DurationUnit

\* C15: while a run's promise is pending its video element is attached and
\* its source URL live; once the promise is settled, by success, by an
\* exception in the loop or by a decoder error, the element is detached and
\* the URL revoked: the release precedes the delivery to the caller.
C15_ReleasedWhenSettled ==
    \A r \in Runs :
        /\ run[r].promise = "pending" => (run[r].attached /\ run[r].urlLive)
        /\ run[r].promise \in {"resolved", "rejected"} =>
              (~run[r].attached /\ ~run[r].urlLive)

\* C15 witness: run 1 was rejected by a decoder error inside its loop, run 2
\* has returned a FrameSet, and neither holds its element or URL.
C15_Witness ==
    /\ run[1].promise = "rejected"
    /\ run[1].errored
    /\ InLoop(run[1])
    /\ run[2].promise = "resolved"
    /\ Len(run[2].frames) > 0
    /\ \A r \in {1, 2} : ~run[r].attached /\ ~run[r].urlLive

\* C16: a run is pending only while the session is in Sampling; the step
\* that fails it leaves the session in Idle with no frames, raises the one
\* notification of that run and leaves no run pending (no retry); a failed
\* run stays failed and never notifies again.
C16_FailureToIdle ==
    [][\A r \in Runs :
          /\ run[r].promise = "pending" => Phase = "Sampling"
          /\ (run[r].promise # "rejected" /\ run'[r].promise = "rejected") =>
                /\ Phase' = "Idle"
                /\ frames' = <<>>
                /\ videoDims' = NoDims
                /\ run'[r].notified = 1
                /\ \A q \in Runs : run'[q].promise # "pending"
          /\ run[r].promise = "rejected" =>
                /\ run'[r].promise = "rejected"
                /\ run'[r].notified = 1]_vars

\* C16 witness: run 1 failed by a decoder error while sampling and its loop
\* went on to the end; it has notified once and the session is in Idle.
C16_Witness ==
    /\ run[1].promise = "rejected"
    /\ run[1].pc = "exited"
    /\ run[1].pct = 100
    /\ run[1].notified = 1
    /\ Phase = "Idle"
    /\ frames = <<>>

\* v is x / n rounded to the nearest integer, halves up.
IsRounded(v, x, n) == 2 * n * v - n <= 2 * x /\ 2 * x < 2 * n * v + n

\* C17: the step that ends iteration i of a run delivers
\* round((i + 1) / N * 100) to the progress callback, a value in 0..100 not
\* below the one delivered before; the last iteration delivers 100, whether
\* or not frames were omitted; no other step delivers a value.  For the
\* frame count 45 that the App requests the values round((i + 1) / 45 * 100)
\* are in 0..100, non-decreasing in i and end with 100.  (SpecSampler)
C17_ProgressMonotone ==
    [][/\ \A r \in Runs :
             IF run[r].pc = "encodeWait" /\ run'[r].pc # "encodeWait"
             THEN LET i == run[r].i
                      v == run'[r].pct
                  IN  /\ v \in 0..100
                      /\ run[r].pct <= v
                      /\ IsRounded(v, 100 * (i + 1), FrameCount)
                      /\ i = FrameCount - 1 => v = 100
                      /\ progress' = v
             ELSE run'[r].pct = run[r].pct
       /\ \A i \in 0..(requestedFrameCount - 1) :
             LET n == requestedFrameCount
                 v == ProgressPercent(i, n)
             IN  /\ v \in 0..100
                 /\ IsRounded(v, 100 * (i + 1), n)
                 /\ i > 0 => ProgressPercent(i - 1, n) <= v
                 /\ i = n - 1 => v = 100]_vars

\* C17 witness: a run has returned a FrameSet that lacks a frame and the
\* last value it delivered is 100.
C17_Witness ==
    /\ run[1].promise = "resolved"
    /\ Len(run[1].frames) < FrameCount
    /\ run[1].pct = 100
    /\ progress = 100

\* C18: within a run a seek wait starts either for sample 0 when the data
\* are ready or for sample i + 1 in the step in which the encode of sample i
\* finishes; an encode starts only from the seek wait of the same sample; a
\* timer is pending only during a seek wait and no seek beyond the current
\* sample has been requested, so at most one wait or encode is outstanding;
\* the frames held are in increasing sample order.  (SpecSampler)
C18_Sequential ==
    [][\A r \in Runs :
          LET old == run[r]
              new == run'[r]
          IN  /\ (new.pc = "seekWait" /\ (old.pc # "seekWait" \/ new.i # old.i)) =>
                    \/ old.pc = "loading" /\ new.i = 0
                    \/ old.pc = "encodeWait" /\ new.i = old.i + 1
              /\ (new.pc = "encodeWait" /\ old.pc # "encodeWait") =>
                    (old.pc = "seekWait" /\ new.i = old.i)
              /\ (new.pc = "encodeWait" /\ old.pc = "encodeWait") =>
                    new.i = old.i
              /\ new.timer => new.pc = "seekWait"
              /\ (new.pendingSeeked \cup new.listeners) \subseteq 0..new.i
              /\ \A a, b \in 1..Len(new.frames) :
                    a < b => new.frames[a] < new.frames[b]]_vars

\* C18 witness: the seek of sample 1 is being waited for, after the frame of
\* sample 0 was encoded and appended.
C18_Witness ==
    /\ run[1].pc = "seekWait"
    /\ run[1].i = 1
    /\ run[1].frames = <<0>>
    /\ run[1].blob = "image"
    /\ run[1].timer

\* C19: while the textures of the session are not ready no step composites
\* (damped tilt, bound texture and tick count stay as they are) and, the
\* viewer staying open, a next tick remains scheduled; whenever a tick has
\* composited, every texture of the session had been loaded and stored.
\* (SpecViewer)
C19_NoCompositeBeforeReady ==
    [][/\ (Len(texturesRef) = 0 /\ session' = session) =>
             /\ UNCHANGED <<ticks, uTilt, uTexture>>
             /\ ViewerActive' => rafPending' > 0
       /\ ticks' > 0 =>
             /\ loaded'[session'] = 1..Len(frames')
             /\ Len(texturesRef') = Len(frames')]_vars

\* C19 witness: the viewer is open, one of its two textures has loaded, the
\* other has not, nothing was composited and a tick is scheduled.
C19_Witness ==
    /\ ViewerActive
    /\ Len(frames) = 2
    /\ loaded[session] = {1}
    /\ Len(texturesRef) = 0
    /\ ticks = 0
    /\ uTexture = NoTexture
    /\ rafPending = 1

\* C20: while the viewer is open exactly one animation frame is requested
\* between ticks, every tick having requested the next; once the viewer is
\* closed none is, and no step composites until a new session starts.
\* (SpecViewer)
C20_OneTickUntilClose ==
    [][/\ ViewerActive' => rafPending' = 1
       /\ ~ViewerActive' => rafPending' = 0
       /\ (~ViewerActive /\ ~ViewerActive') =>
             UNCHANGED <<ticks, uTilt, uTexture>>]_vars

\* C20 witness: a session that composited has been closed; no animation
\* frame is requested.
C20_Witness ==
    /\ ~ViewerActive
    /\ session > 0
    /\ ticks > 0
    /\ rafPending = 0

\* C21 (as claimed): nothing of an open session is released; once a session
\* is closed its render target and every texture that a load completion
\* created for it are released; releases happen only in the teardown step,
\* which releases nothing that was released before.  (SpecViewer)
C21_ReleasedOnceAtTeardown ==
    [][/\ \A s \in 1..session' :
             IF s = session' /\ ViewerActive'
             THEN \A k \in 0..FrameCount : <<s, k>> \notin disposed'
             ELSE /\ RenderTarget(s) \in disposed'
                  /\ \A k \in loaded'[s] : <<s, k>> \in disposed'
       /\ disposed' # disposed => (ViewerActive /\ ~ViewerActive')
       /\ (ViewerActive /\ ~ViewerActive') =>
             (SeqRange(texturesRef) \cup {RenderTarget(session)}) \cap disposed = {}]_vars

\* C22 (as claimed): after the step that closes the viewer no frame URL of
\* the FrameSet that was shown exists any more.
C22_FrameUrlsReleasedOnClose ==
    [][(ViewerActive /\ ~ViewerActive') =>
          SeqRange(frames) \cap LiveUrls' = {}]_vars

\* C23: once the textures of the open session are ready there are as many
\* as frames, and texture i is the one loaded from frame i, in whatever
\* order the loads completed.  (SpecViewer)
C23_TexturesAligned ==
    (ViewerActive /\ Len(texturesRef) > 0) =>
        /\ Len(texturesRef) = Len(frames)
        /\ \A k \in 1..Len(frames) :
              /\ texturesRef[k] = <<session, k>>
              /\ k \in loaded[session]

\* C23 witness: the two textures of a two-frame FrameSet are ready in a
\* second session.
C23_Witness ==
    /\ ViewerActive
    /\ session = 2
    /\ Len(frames) = 2
    /\ texturesRef = <<<<2, 1>>, <<2, 2>>>>


\* C24: the mapping from tilt to frame index is monotonic: for any frame count
\* and any two tilts t1 < t2 the index selected for t1 is at most the index
\* selected for t2.  The smoothed tilt of every reachable state is compared,
\* for every frame count up to the requested one, with its two neighbours and
\* with a grid of tilts that reaches beyond both ends of [-1, 1]; the frame
\* bound in the state is the one the mapping names.
C24_TiltGrid == {(k * TiltScale) \div 8 : k \in -24..24}

C24_IndexMonotone ==
    /\ \A n \in 1..requestedFrameCount :
          \A t \in C24_TiltGrid \cup {uTilt - 1, uTilt + 1} :
              /\ t < uTilt => FrameIndex(t, n) <= FrameIndex(uTilt, n)
              /\ uTilt < t => FrameIndex(uTilt, n) <= FrameIndex(t, n)
    /\ (ViewerActive /\ ticks > 0) =>
          uTexture = texturesRef[FrameIndex(uTilt, Len(texturesRef)) + 1]

\* C24 witness: with two frames, a tick has moved the smoothed tilt above
\* zero and the second frame is bound, while a tilt just below zero selects
\* the first.
C24_Witness ==
    /\ ViewerActive
    /\ ticks > 0
    /\ Len(texturesRef) = 2
    /\ uTilt > 0
    /\ uTexture = texturesRef[2]
    /\ FrameIndex(-1, 2) = 0
    /\ FrameIndex(uTilt, 2) = 1


\* C25: each compositing tick sets smoothed := smoothed + (raw - smoothed) / 10
\* (to the rounding of the fixed-point tilt); with the raw tilt held constant
\* the smoothed value moves toward raw, never away from it and never past it.
\* From smoothed 0 with raw 1 it is 0.1 after one tick, about 0.65 after ten
\* ticks, and below 1 after every tick.
C25_SmoothingStep ==
    [][(ticks' # ticks \/ uTilt' # uTilt) =>
          LET gap == tiltRef - uTilt
              step == uTilt' - uTilt
              twice == 2 * (dampingInverse * step - gap)
          IN  /\ tiltRef' = tiltRef
              /\ -dampingInverse <= twice /\ twice <= dampingInverse
              /\ gap >= 0 => (0 <= step /\ step <= gap)
              /\ gap <= 0 => (gap <= step /\ step <= 0)
              /\ (gap > dampingInverse \/ gap < -dampingInverse) => step # 0
              /\ tiltRef = TiltScale =>
                    /\ uTilt' < TiltScale
                    /\ ticks' = 1 => uTilt' = RoundDiv(TiltScale, dampingInverse)
                    /\ ticks' = 10 => /\ 64 * TiltScale <= 100 * uTilt'
                                      /\ 100 * uTilt' <= 66 * TiltScale]_vars

\* C25 witness: ten ticks after the raw tilt jumped from 0 to 1 the smoothed
\* tilt is about 0.65.
C25_Witness ==
    /\ ViewerActive
    /\ tiltRef = TiltScale
    /\ ticks = 10
    /\ 64 * TiltScale <= 100 * uTilt
    /\ 100 * uTilt <= 66 * TiltScale


\* C26: with the raw tilt held constant, repeated ticks bring the smoothed
\* tilt to raw (to within the rounding of one damped step) and the selected
\* frame stabilises: from some tick on, no later tick changes the smoothed
\* tilt or the bound frame.
C26_Settled ==
    /\ ticks > 0
    /\ 2 * (tiltRef - uTilt) <= dampingInverse
    /\ 2 * (uTilt - tiltRef) <= dampingInverse
    /\ uTexture = texturesRef[FrameIndex(uTilt, Len(texturesRef)) + 1]

C26_IndexStabilises ==
    /\ <>[]C26_Settled
    /\ <>[][uTexture' = uTexture /\ uTilt' = uTilt]_vars

\* C26 witness: the raw tilt is 1 and the loop has run to the point where
\* the smoothed tilt is within rounding of it, several ticks after the bound
\* frame changed for the last time.
C26_Witness ==
    /\ ViewerActive
    /\ tiltRef = TiltScale
    /\ ticks = MaxSteadyTicks
    /\ C26_Settled
    /\ uTilt # 0
    /\ Smooth(uTilt, tiltRef) = uTilt


\* C27: in every reachable state the raw tilt lies in [-1, 1], after any
\* sequence of orientation events (any angle, or none) and pointer events
\* (any pointer position the platform delivers).
C27_RawTiltInRange ==
    /\ -TiltScale <= tiltRef
    /\ tiltRef <= TiltScale


\* C28: after any interleaving of orientation and pointer events the raw tilt
\* is the normalised value of the most recent event alone, whatever the raw
\* tilt was before and whichever stream wrote it; nothing but an event (or the
\* start of a session) writes it, and a tick smooths toward the value it finds.
C28_LastWriterWins ==
    [][/\ \A g \in Gammas :
             <<HandleOrientation(g)>>_vars => tiltRef' = OrientationTilt(g)
       /\ \A x \in ClientXs :
             <<HandleMouseMove(x)>>_vars => tiltRef' = MouseTilt(x)
       /\ tiltRef' # tiltRef =>
             \/ session' = session + 1 /\ tiltRef' = 0
             \/ /\ ViewerActive
                /\ UNCHANGED <<session, uTilt, uTexture, ticks>>
                /\ tiltRef' \in RawTilts
       /\ ticks' = ticks + 1 =>
             /\ tiltRef' = tiltRef
             /\ uTilt' = Smooth(uTilt, tiltRef)]_vars

\* C28 witness: an orientation event wrote 20/45 over the value a pointer
\* event had left, a tick smoothed toward it alone, and the raw tilt is still
\* the orientation event's value.
C28_Witness ==
    /\ ViewerActive
    /\ tiltRef = OrientationTilt(<<20>>)
    /\ ticks = 1
    /\ uTilt = Smooth(0, OrientationTilt(<<20>>))
    /\ uTilt # Smooth(0, MouseTilt(InnerWidth))


\* C29: a tick that runs while the viewport has zero area (after a resize to
\* zero width or height) composites nothing: it leaves the smoothed tilt, the
\* bound frame and the count of composited ticks alone, and the loop stays
\* scheduled for later ticks.
C29_ZeroAreaTickSkipped ==
    [][(ViewerActive /\ (viewport[1] = 0 \/ viewport[2] = 0)) =>
          /\ UNCHANGED <<uTilt, uTexture, ticks>>
          /\ rafPending' > 0]_vars


\* C30: at the start of every render session the raw tilt and the smoothed
\* tilt are both 0, whatever values the previous session ended with, and they
\* stay 0 until an input event or a compositing tick of the new session.
C30_TiltResetAtSessionStart ==
    /\ [][session' # session =>
            /\ session' = session + 1
            /\ ViewerActive'
            /\ tiltRef' = 0
            /\ uTilt' = 0
            /\ ticks' = 0]_vars
    /\ [][(session' = session /\ ticks' = 0 /\ uTilt' # 0) => uTilt' = uTilt]_vars

\* C30 witness: the second session has just started, after the first one was
\* torn down with its textures loaded, and both tilts are 0.
C30_Witness ==
    /\ ViewerActive
    /\ session = 2
    /\ ticks = 0
    /\ tiltRef = 0
    /\ uTilt = 0
    /\ <<1, 1>> \in disposed


\* C31: the raw tilt is written by input events only: a render tick, skipped
\* or compositing, a resize and the completion of a texture load all leave it
\* unchanged.
C31_OnlyInputWritesRawTilt ==
    [][/\ (<<AnimateSkip>>_vars \/ <<AnimateComposite>>_vars) =>
             tiltRef' = tiltRef
       /\ (\E size \in ViewportSizes, ratio \in PixelRatios :
              <<Resize(size, ratio)>>_vars) => tiltRef' = tiltRef
       /\ (\E k \in 1..FrameCount : <<LoadTexture(1, k)>>_vars) =>
             tiltRef' = tiltRef
       /\ (\/ ticks' # ticks
           \/ sizeVars' # sizeVars
           \/ loaded' # loaded
           \/ texturesRef' # texturesRef
           \/ uTilt' # uTilt
           \/ uTexture' # uTexture) => tiltRef' = tiltRef]_vars

\* C31 witness: an input event set the raw tilt, and then the last texture
\* load completed, the window was resized and a tick composited, with the
\* raw tilt still the event's value.
C31_Witness ==
    /\ ViewerActive
    /\ tiltRef = OrientationTilt(<<20>>)
    /\ Len(texturesRef) = 2
    /\ ticks = 1
    /\ uTilt = Smooth(0, tiltRef)
    /\ viewport = <<0, InnerWidth>>


\* C32: from the start of a render session onward, and after every resize,
\* the uResolution uniform equals the container's client size times the device
\* pixel ratio capped at 2; it is not at its placeholder value when the first
\* compositing tick runs.
C32_ResolutionTracksSurface ==
    /\ [][ViewerActive' =>
            /\ uResolution' = <<viewport'[1] * Min(pixelRatio', maxPixelRatio),
                                viewport'[2] * Min(pixelRatio', maxPixelRatio)>>
            /\ uResolution'[1] <= 2 * viewport'[1]
            /\ uResolution'[2] <= 2 * viewport'[2]]_vars
    /\ [][(ticks = 0 /\ ticks' = 1) =>
            /\ uResolution # Placeholder
            /\ uResolution' # Placeholder]_vars

\* C32 witness: the window reports a pixel ratio of 3, a resize has collapsed
\* the container's height, and after a compositing tick the uniform holds the
\* width times the capped ratio and a zero height.
C32_Witness ==
    /\ ViewerActive
    /\ pixelRatio = 3
    /\ viewport = <<InnerWidth, 0>>
    /\ uResolution = <<2 * InnerWidth, 0>>
    /\ ticks = 1


\* C33: frame i of a sampling run is drawn only after seek i itself has
\* completed or seek i's own 200 ms timeout has fired: a wait ends only by the
\* timer of that wait or by the 'seeked' signal of the seek it waits for,
\* never by the signal of an earlier seek that had already timed out.
C33_WaitEndsOnOwnSeek ==
    [][\A r \in Runs :
          (run[r].pc = "seekWait" /\ run'[r].pc # "seekWait") =>
              \/ \E throws \in BOOLEAN : SeekTimeout(r, throws)
              \/ \E throws \in BOOLEAN : Seeked(r, run[r].i, throws)]_vars


\* C34: after an explicit close the session does not re-enter Viewing without
\* a new explicit start-viewing action: the only steps that open the viewer
\* once a viewer has been opened and closed are the Initialize_View and
\* Grant_Access buttons, never the delayed auto-start timer.
C34_NoReopenByTimer ==
    [][(session >= 1 /\ ~ViewerActive /\ ViewerActive') =>
          \/ InitializeView
          \/ RequestPermission("granted")]_vars


\* C34 witness: the viewer was opened with the Grant_Access button and closed
\* again while the auto-start timer of the run is still pending.
C34_Witness ==
    /\ session = 1
    /\ ~crashed
    /\ ~ViewerActive
    /\ ~viewMode
    /\ permissionGranted
    /\ Len(frames) > 0
    /\ \E r \in Runs : run[r].autoStart = "armed"


\* C35: once a sampling run has been reported to its caller as failed, also by
\* a decoder error that arrives while the sample loop is running, the run
\* seeks, captures and reports progress no more; the displayed progress is 0
\* whenever the session is in Idle, and at most one sample loop is running.
C35_FailedRunStops ==
    [][/\ \A r \in Runs :
             run[r].promise = "rejected" =>
                 /\ run'[r].pct = run[r].pct
                 /\ run'[r].pc \in {run[r].pc, "exited"}
                 /\ run'[r].time = run[r].time \/ run'[r].pc = "exited"
       /\ Phase' = "Idle" => progress' = 0
       /\ Cardinality({r \in Runs : InLoop(run'[r])}) <= 1]_vars


\* C36: whenever a sampling run completes successfully the session is in
\* Ready (or Viewing) with a non-empty FrameSet: a run in which every encode
\* failed is not a success that leaves the session without frames and without
\* a notification.
C36_SuccessHasFrames ==
    [][\A r \in Runs :
          (run[r].promise = "pending" /\ run'[r].promise = "resolved") =>
              /\ Len(frames') > 0
              /\ Phase' \in {"Ready", "Viewing"}]_vars


\* C37: whenever the viewer is active the FrameSet is non-empty, the
\* dimensions are set, and the frames and the dimensions handed to the viewer
\* come from the same sampling run, which returned them together.
C37_FramesAndDimsAgree ==
    ViewerActive =>
        /\ Len(frames) > 0
        /\ videoDims # NoDims
        /\ \A k \in 1..Len(frames) : frames[k][1] = videoDims.run
        /\ run[videoDims.run].promise = "resolved"
        /\ frames = FrameIds(videoDims.run, run[videoDims.run].frames)
        /\ videoDims.width = run[videoDims.run].canvas[1]
        /\ videoDims.height = run[videoDims.run].canvas[2]

\* C37 witness: the viewer shows the frames of the second run, which was
\* started after the first one had failed.
C37_Witness ==
    /\ ViewerActive
    /\ run[1].promise = "rejected"
    /\ run[2].promise = "resolved"
    /\ videoDims.run = 2
    /\ Len(frames) = 2


\* C38: no compositing tick binds a texture that has already been released:
\* the frame a tick selects is a loaded texture of the running session that
\* is not disposed, before and after the tick.
C38_NoReleasedTextureBound ==
    [][ticks' = ticks + 1 =>
          /\ uTexture' # NoTexture
          /\ uTexture' \notin disposed
          /\ uTexture' \notin disposed'
          /\ uTexture'[1] = session
          /\ uTexture'[2] \in loaded[session]]_vars

\* C38 witness: the textures of the first session were released at its close,
\* and a tick of the second session has bound one of that session's textures.
C38_Witness ==
    /\ ViewerActive
    /\ session = 2
    /\ ticks >= 1
    /\ <<1, 1>> \in disposed
    /\ uTexture[1] = 2
    /\ uTexture \notin disposed


\* C39: at any moment of a sampling run at most one seek-complete listener is
\* registered on the decoder, and only during a seek wait: when a wait has
\* ended, by signal or by timeout, its listener is no longer registered.
C39_OneSeekedListener ==
    \A r \in Runs :
        /\ Cardinality(run[r].listeners) <= 1
        /\ run[r].pc # "seekWait" => run[r].listeners = {}
        /\ run[r].pc = "seekWait" => run[r].listeners \subseteq {run[r].i}

====
